---- MODULE Spec2Model ----
(***************************************************************************)
(* Model of sre.py, the SRE command-line client for Kubernetes             *)
(* deployments.                                                            *)
(*                                                                         *)
(*   Spec      the rollout monitor, monitor_rollout_status, as called by   *)
(*             rollout_deployment: one poll iteration per step, the sleep  *)
(*             between two iterations as a step of its own.                *)
(*   DiagSpec  the pod pass of diagnostic_deployment: one pod per step.    *)
(*   CmdSpec   sre scale, sre info, sre rollout and sre logs, from the     *)
(*             lookup of the deployment on: one call of the API per step,  *)
(*             up to the return, the exit or the call of the monitor.      *)
(*                                                                         *)
(* Python's None is the empty tuple for a nullable integer (None == <<>>,  *)
(* the integer n is <<n>>) and the string "None" for a nullable string.    *)
(* Time is in whole ticks of an abstract clock.                            *)
(***************************************************************************)
EXTENDS Integers, Sequences, FiniteSets, TLC

VARIABLES
    \* ---- process -------------------------------------------------------
    pc,                  \* where the command is
    stdout,              \* the lines printed so far
    exit_status,         \* None while running, then the process exit status
    \* ---- monitor_rollout_status ------------------------------------------
    timeout,             \* parameter timeout
    interval,            \* parameter interval
    clock,               \* the last reading of time.time()
    start_time,          \* local start_time
    deployment,          \* the snapshot fetched by the iteration in progress
    spec_replicas,       \* local spec_replicas
    updated_replicas,    \* local updated_replicas
    available_replicas,  \* local available_replicas
    outcome,             \* how the loop ended, "Polling" until it has
    loop_result,         \* what the caller of the loop gets from the call
    fetches,             \* calls of read_namespaced_deployment made
    api_errors,          \* of these, the calls that raised ApiException
    sleeps,              \* calls of time.sleep made
    first_spec_replicas, \* ghost: spec_replicas as read by the first iteration
    \* ---- diagnostic_deployment -------------------------------------------
    n_pods,              \* len(pods.items)
    arg_pod,             \* args.pod
    pod,                 \* the pod of the iteration in progress
    processed,           \* pods the for loop has taken so far
    healthy_count,       \* local healthy_count
    issues_count,        \* local issues_count
    classified,          \* "Healthy" / "Issue" for the last pod, or "Raised"
    reported,            \* the text after "Issues: " in the last pod's line
    metrics,             \* how the call of the metrics API went
    pod_metrics_entry,   \* pod_metrics[pod_name]["cpu"] for the last pod
    \* ---- the commands and the cluster ----------------------------------
    command,             \* args.command
    arg_deployment,      \* args.deployment
    arg_namespace,       \* args.namespace, or the answer to the prompt
    arg_action,          \* args.action of sre rollout
    arg_replicas,        \* args.replicas of sre scale
    arg_logs,            \* sre logs: "deployment" or "pod", the one given
    cluster,             \* namespace -> spec.replicas of the deployment named
                         \* arg_deployment there, None where there is none
    restarted,           \* namespaces whose deployment got a restartedAt
    cluster0,            \* ghost: cluster when the command started
    lookup,              \* what find_deployment came to
    patches,             \* the patch calls made, in order
    monitor_call,        \* arguments of the call of monitor_rollout_status
    shown,               \* the namespace in the lines sre info printed
    n_log_pods,          \* sre logs: len(pods.items)
    log_requests,        \* sre logs: the pods whose log was requested
    log_failures         \* sre logs: of these, the requests that failed

pvars == <<pc, stdout, exit_status>>
rvars == <<timeout, interval, clock, start_time, deployment, spec_replicas,
           updated_replicas, available_replicas, outcome, loop_result,
           fetches, api_errors, sleeps, first_spec_replicas>>
dvars == <<n_pods, arg_pod, pod, processed, healthy_count, issues_count,
           classified, reported, metrics, pod_metrics_entry>>
avars == <<command, arg_deployment, arg_namespace, arg_action, arg_replicas,
           arg_logs, cluster0>>
lvars == <<n_log_pods, log_requests, log_failures>>
cvars == <<command, arg_deployment, arg_namespace, arg_action, arg_replicas,
           arg_logs, cluster, restarted, cluster0, lookup, patches,
           monitor_call, shown, n_log_pods, log_requests, log_failures>>
vars == <<pvars, rvars, dvars, cvars>>

-----------------------------------------------------------------------------
(* Bounds of the model.                                                    *)

MaxReplicas == 1
MaxGeneration == 2
MaxTimeout == 1
MaxInterval == 1
MaxStartTime == 1
MaxClock == 3
MaxFetches == 3
MaxPods == 2
MaxContainers == 2

-----------------------------------------------------------------------------
(* Values.                                                                 *)

None == <<>>
Some(n) == <<n>>
Nullable(S) == {None} \cup {Some(n) : n \in S}

NoDeployment == [replicas |-> None, updated_replicas |-> None,
                 available_replicas |-> None, observed_generation |-> None,
                 generation |-> None, fetched |-> FALSE]

\* What read_namespaced_deployment can return: spec.replicas,
\* status.updated_replicas, status.available_replicas,
\* status.observed_generation and metadata.generation, each optional in the
\* API object.
Deployments ==
    [replicas : Nullable(0..MaxReplicas),
     updated_replicas : Nullable(0..MaxReplicas),
     available_replicas : Nullable(0..MaxReplicas),
     observed_generation : Nullable(0..MaxGeneration),
     generation : Nullable(1..MaxGeneration),
     fetched : {TRUE}]

ApiStatuses == {404, 500}

MsgFetchError == "Error: Could not fetch deployment status."
MsgSuccess == "Rollout successful: all replicas updated and available."
MsgTimeout == "Timeout waiting for rollout to complete."
MsgProgress == "Rollout in progress"

Last(s) == s[Len(s)]
Count(s, m) == Cardinality({i \in 1..Len(s) : s[i] = m})

-----------------------------------------------------------------------------
(* monitor_rollout_status: the pure parts.                                 *)

\* x if x is not None else 0
OrZero(x) == IF x # None THEN x[1] ELSE 0

\* observed_generation >= generation raises TypeError when either is None
GenerationRaises(d) == d.observed_generation = None \/ d.generation = None

SpecReplicasReadOnce(d) ==
    IF first_spec_replicas # None THEN first_spec_replicas[1]
    ELSE OrZero(d.replicas)

\* spec_replicas, updated_replicas and available_replicas as the iteration
\* that fetched d assigns them
SpecReplicas(d) == OrZero(d.replicas)
UpdatedReplicas(d) == OrZero(d.updated_replicas)
AvailableReplicas(d) == OrZero(d.available_replicas)

\* the condition of the if that ends the loop with success
RolloutComplete(d) ==
    /\ d.observed_generation[1] >= d.generation[1]
    /\ UpdatedReplicas(d) = SpecReplicas(d)
    /\ AvailableReplicas(d) = SpecReplicas(d)

TimeoutExceededOrEqual(t) == t - start_time >= timeout

\* the timeout check, t being the reading of time.time() it makes
TimeoutExceeded(t) == t - start_time > timeout

LoopResultReturnsOnTimeout(o) ==
    CASE o = "Converged" -> "None"
      [] o = "TimedOut" -> "None"
      [] o = "FetchError" -> "SystemExit(1)"
      [] o = "TypeError" -> "TypeError"

\* what the call monitor_rollout_status(...) gives its caller: None by
\* falling off the end after break, SystemExit(1) from sys.exit(1), or the
\* exception the comparison raised
LoopResult(o) ==
    CASE o = "Converged" -> "None"
      [] o = "TimedOut" -> "SystemExit(1)"
      [] o = "FetchError" -> "SystemExit(1)"
      [] o = "TypeError" -> "TypeError"

-----------------------------------------------------------------------------
(* diagnostic_deployment: the pods and the pure parts of the pod pass.     *)

\* a waiting or terminated attribute that is None
Absent == "absent"

Phases == {"Running", "Pending", "None"}

\* cs.state: None itself, or an object whose waiting and terminated are
\* each None or an object with a reason, the reason a string or None
ContainerStates ==
    {[is_none |-> TRUE, waiting |-> Absent, terminated |-> Absent]} \cup
    {st \in [is_none : {FALSE},
             waiting : {Absent, "None", "CrashLoopBackOff"},
             terminated : {Absent, "None", "Error"}] :
        st.waiting = Absent \/ st.terminated = Absent}

Containers == [ready : BOOLEAN, state : ContainerStates]

SeqsUpTo(S, n) == UNION {[1..k -> S] : k \in 0..n}

NoPod == [phase |-> "None", has_statuses |-> FALSE,
          container_statuses |-> <<>>, listed |-> FALSE]

\* the items of list_namespaced_pod: status.phase and
\* status.container_statuses, which is None, empty or a list
Pods ==
    [phase : Phases, has_statuses : {FALSE}, container_statuses : {<<>>},
     listed : {TRUE}] \cup
    [phase : Phases, has_statuses : {TRUE},
     container_statuses : SeqsUpTo(Containers, MaxContainers),
     listed : {TRUE}]

MsgNoPods == "No pods found for this deployment."
MsgPodHeader == "Pod-level Diagnostics:"
MsgPodLine == "  Pod: "
MsgOverall == "Overall Diagnostics for Deployment"
MsgNotReady == "Pod not running/ready"

\* the metrics call: it raises ApiException, or answers with no items, or
\* answers with items
MetricsResults == {"ApiException", "no_items", "items"}

\* pod_metrics[pod_name]["cpu"]: Absent when pod_name is not a key of
\* pod_metrics, "N/A" for an item without containers, else the usage
MetricsEntries(m) == IF m = "items" THEN {Absent, "N/A", "250m"} ELSE {Absent}

\* the text put after "CPU: " in the pod's line
CpuText(e) == IF e = Absent THEN "N/A" ELSE e

\* the truth value of pod.status.container_statuses
HasContainerStatuses(p) == p.has_statuses /\ Len(p.container_statuses) > 0

ReadyVacuous(p) ==
    \A i \in 1..Len(p.container_statuses) : p.container_statuses[i].ready

\* ready = all(cs.ready for cs in statuses) if statuses else False
Ready(p) ==
    IF HasContainerStatuses(p)
    THEN \A i \in 1..Len(p.container_statuses) : p.container_statuses[i].ready
    ELSE FALSE

\* cs.state.waiting raises AttributeError when cs.state is None
StateRaises(p) ==
    /\ HasContainerStatuses(p)
    /\ \E i \in 1..Len(p.container_statuses) :
          p.container_statuses[i].state.is_none

RECURSIVE CollectReasons(_, _, _)
\* the for loop over the container statuses, from index i on, acc being
\* issue_reasons so far
CollectReasons(cs, i, acc) ==
    IF i > Len(cs) THEN acc
    ELSE IF cs[i].state.waiting # Absent
         THEN CollectReasons(cs, i + 1, Append(acc, cs[i].state.waiting))
    ELSE IF cs[i].state.terminated # Absent
         THEN CollectReasons(cs, i + 1, Append(acc, cs[i].state.terminated))
    ELSE CollectReasons(cs, i + 1, acc)

RECURSIVE CollectReasonsReversed(_, _, _)
CollectReasonsReversed(cs, i, acc) ==
    IF i > Len(cs) THEN acc
    ELSE IF cs[i].state.waiting # Absent
         THEN CollectReasonsReversed(cs, i + 1, <<cs[i].state.waiting>> \o acc)
    ELSE IF cs[i].state.terminated # Absent
         THEN CollectReasonsReversed(cs, i + 1, <<cs[i].state.terminated>> \o acc)
    ELSE CollectReasonsReversed(cs, i + 1, acc)

IssueReasonsReversed(p) ==
    IF HasContainerStatuses(p)
    THEN CollectReasonsReversed(p.container_statuses, 1, <<>>)
    ELSE <<>>

\* issue_reasons after the loop over the container statuses
IssueReasons(p) ==
    IF HasContainerStatuses(p)
    THEN CollectReasons(p.container_statuses, 1, <<>>)
    ELSE <<>>

\* ', '.join(reasons) raises TypeError when an item is None
JoinRaises(reasons) == \E i \in 1..Len(reasons) : reasons[i] = "None"

RECURSIVE JoinFrom(_, _, _)
JoinFrom(reasons, i, text) ==
    IF i > Len(reasons) THEN text
    ELSE JoinFrom(reasons, i + 1, text \o ", " \o reasons[i])

\* ', '.join(reasons), reasons not empty
Join(reasons) == JoinFrom(reasons, 2, reasons[1])

\* the condition of the if that counts the pod as one with issues
\* the condition, had a pod without metrics been an issue
HasIssueWithoutMetrics(p) ==
    \/ IssueReasons(p) # <<>> \/ p.phase # "Running" \/ ~Ready(p)
    \/ metrics # "items"

\* if issue_reasons or phase != "Running" or not ready
HasIssue(p) == IssueReasons(p) # <<>> \/ p.phase # "Running" \/ ~Ready(p)

\* the text put after "Issues: " in the pod's line
IssuesText(p) ==
    IF IssueReasons(p) # <<>> THEN Join(IssueReasons(p)) ELSE MsgNotReady

-----------------------------------------------------------------------------
(* The cluster as the commands see it, and find_deployment.               *)

Namespaces == {"default", "prod"}

\* the order in which a listing over all namespaces returns its items
NamespaceOrder == <<"default", "prod">>

DeploymentNames == {"web", "api"}

\* args.namespace: None, the empty answer to the prompt, or a namespace
ArgNamespaces == {"None", ""} \cup Namespaces

\* per namespace, spec.replicas of the deployment that has the requested
\* name, None where no deployment has it
Clusters == [Namespaces -> Nullable(0..MaxReplicas)]

Commands == {"scale", "info", "rollout", "logs"}

\* the API serves the lookup (200) or fails it with a server error (500); a
\* 404 is what a read of a deployment that does not exist is served with
FindStatuses == {200, 500}

MsgRetrieveError == "Error: Could not retrieve deployment information."
MsgSearchError == "Error: Unable to search for deployment."
MsgMultiple == "Multiple deployments found with name"
MsgNotFound == "Error: Deployment not found."
MsgScaled == "Deployment scaled"
MsgScaleFailed == "Error: Scaling operation failed."
MsgInfo == "Deployment Information:"
MsgRestarted == "Deployment restarted successfully."
MsgRestartFailed == "Error: Failed to restart deployment"
MsgMonitoring == "Monitoring rollout status..."
MsgNoSelector == "Error: No label selector found for the deployment."
MsgListError == "Error: Unable to list pods for the deployment."
MsgLogs == "Logs for pod"
MsgLogError == "Error: Could not fetch logs for pod"

NoLookup == [result |-> "pending", namespace |-> "None", message |-> "None"]
NoCall == [name |-> "None", namespace |-> "None"]

\* the truth value of the namespace argument
Truthy(namespace) == namespace \notin {"None", ""}

\* deployments.items of the listing over all namespaces
Items(c) == SelectSeq(NamespaceOrder, LAMBDA n : c[n] # None)

\* find_deployment, had it taken the first of several matches
FindDeploymentFirstMatch(c, namespace, status) ==
    IF Truthy(namespace)
    THEN IF status # 200
         THEN [result |-> "exit", namespace |-> "None",
               message |-> MsgRetrieveError]
         ELSE IF c[namespace] = None
         THEN [result |-> "none", namespace |-> "None", message |-> "None"]
         ELSE [result |-> "found", namespace |-> namespace,
               message |-> "None"]
    ELSE IF status # 200
         THEN [result |-> "exit", namespace |-> "None",
               message |-> MsgSearchError]
         ELSE IF Len(Items(c)) = 0
         THEN [result |-> "none", namespace |-> "None", message |-> "None"]
         ELSE [result |-> "found", namespace |-> Items(c)[1],
               message |-> "None"]

\* find_deployment(apps_v1, deployment_name, namespace): the deployment
\* ("found", with its namespace), None ("none") or sys.exit(1) after the
\* message ("exit")
FindDeployment(c, namespace, status) ==
    IF Truthy(namespace)
    THEN IF status # 200
         THEN [result |-> "exit", namespace |-> "None",
               message |-> MsgRetrieveError]
         ELSE IF c[namespace] = None
         THEN [result |-> "none", namespace |-> "None", message |-> "None"]
         ELSE [result |-> "found", namespace |-> namespace,
               message |-> "None"]
    ELSE IF status # 200
         THEN [result |-> "exit", namespace |-> "None",
               message |-> MsgSearchError]
         ELSE IF Len(Items(c)) = 0
         THEN [result |-> "none", namespace |-> "None", message |-> "None"]
         ELSE IF Len(Items(c)) > 1
         THEN [result |-> "exit", namespace |-> "None",
               message |-> MsgMultiple]
         ELSE [result |-> "found", namespace |-> Items(c)[1],
               message |-> "None"]

\* the test of the lookup's result, had the commands not made it
DeploymentFoundAlways(r) == r.result \in {"found", "none"}

\* the negation of `if not deployment`
DeploymentFound(r) == r.result = "found"

\* the API accepts a patch of a deployment only where there is one
PatchAccepted(c, namespace) ==
    namespace \in Namespaces /\ c[namespace] # None

-----------------------------------------------------------------------------
(* Initial states.                                                         *)

CmdIdle ==
    /\ command = "None" /\ arg_deployment = "None" /\ arg_namespace = "None"
    /\ arg_action = "None" /\ arg_replicas = None /\ arg_logs = "None"
    /\ cluster = [n \in Namespaces |-> None]
    /\ cluster0 = [n \in Namespaces |-> None]
    /\ restarted = {}
    /\ lookup = NoLookup
    /\ patches = <<>>
    /\ monitor_call = NoCall
    /\ shown = "None"
    /\ n_log_pods = 0 /\ log_requests = <<>> /\ log_failures = {}

RolloutIdle ==
    /\ timeout = 0 /\ interval = 0 /\ clock = 0 /\ start_time = 0
    /\ deployment = NoDeployment
    /\ spec_replicas = None /\ updated_replicas = None
    /\ available_replicas = None
    /\ outcome = "Polling" /\ loop_result = "None"
    /\ fetches = 0 /\ api_errors = 0 /\ sleeps = 0
    /\ first_spec_replicas = None

DiagIdle ==
    /\ n_pods = 0 /\ arg_pod = FALSE
    /\ pod = NoPod
    /\ processed = 0 /\ healthy_count = 0 /\ issues_count = 0
    /\ classified = "None" /\ reported = "None"
    /\ metrics = "unfetched" /\ pod_metrics_entry = Absent

\* rollout_deployment has found the deployment and is about to call
\* monitor_rollout_status(apps_v1, deployment_name, ns, timeout, interval)
Init ==
    /\ pc = "monitor" /\ stdout = <<>> /\ exit_status = None
    /\ timeout \in 0..MaxTimeout
    /\ interval \in 0..MaxInterval
    /\ clock = 0 /\ start_time = 0
    /\ deployment = NoDeployment
    /\ spec_replicas = None /\ updated_replicas = None
    /\ available_replicas = None
    /\ outcome = "Polling" /\ loop_result = "None"
    /\ fetches = 0 /\ api_errors = 0 /\ sleeps = 0
    /\ first_spec_replicas = None
    /\ DiagIdle
    /\ CmdIdle

-----------------------------------------------------------------------------
(* monitor_rollout_status: the steps.                                      *)

\* start_time = time.time()
StartMonitor ==
    /\ pc = "monitor"
    /\ \E t \in clock..MaxStartTime :
        /\ clock' = t
        /\ start_time' = t
    /\ pc' = "fetch"
    /\ UNCHANGED <<stdout, exit_status, timeout, interval, deployment,
                   spec_replicas, updated_replicas, available_replicas,
                   outcome, loop_result, fetches, api_errors, sleeps,
                   first_spec_replicas>>
    /\ UNCHANGED dvars
    /\ UNCHANGED cvars

\* the three assignments that follow a fetch that returned d
ReadLocals(d) ==
    /\ deployment' = d
    /\ spec_replicas' = Some(SpecReplicas(d))
    /\ updated_replicas' = Some(UpdatedReplicas(d))
    /\ available_replicas' = Some(AvailableReplicas(d))
    /\ first_spec_replicas' =
         IF fetches = 0 THEN Some(SpecReplicas(d)) ELSE first_spec_replicas

\* the process ends inside the loop: sys.exit(1) or an uncaught exception
EndLoop(o) ==
    /\ outcome' = o
    /\ loop_result' = LoopResult(o)
    /\ pc' = IF LoopResult(o) = "None" THEN "returned" ELSE "exited"
    /\ exit_status' = IF LoopResult(o) = "None" THEN exit_status ELSE Some(1)

FetchFailedRetries(status) ==
    /\ pc = "fetch" /\ fetches < MaxFetches
    /\ \E t \in clock..MaxClock : clock' = t
    /\ fetches' = fetches + 1
    /\ api_errors' = api_errors + 1
    /\ stdout' = Append(stdout, MsgFetchError)
    /\ pc' = "sleep"
    /\ UNCHANGED <<exit_status, timeout, interval, start_time, deployment,
                   spec_replicas, updated_replicas, available_replicas,
                   outcome, loop_result, sleeps, first_spec_replicas>>
    /\ UNCHANGED dvars
    /\ UNCHANGED cvars

\* read_namespaced_deployment raises ApiException(status)
FetchFailed(status) ==
    /\ pc = "fetch" /\ fetches < MaxFetches
    /\ \E t \in clock..MaxClock : clock' = t
    /\ fetches' = fetches + 1
    /\ api_errors' = api_errors + 1
    /\ stdout' = Append(stdout, MsgFetchError)
    /\ EndLoop("FetchError")
    /\ UNCHANGED <<timeout, interval, start_time, deployment, spec_replicas,
                   updated_replicas, available_replicas, sleeps,
                   first_spec_replicas>>
    /\ UNCHANGED dvars
    /\ UNCHANGED cvars

\* the fetch returns d and the generation comparison raises TypeError
IterRaises(d) ==
    /\ pc = "fetch" /\ fetches < MaxFetches
    /\ GenerationRaises(d)
    /\ \E t \in clock..MaxClock : clock' = t
    /\ fetches' = fetches + 1
    /\ ReadLocals(d)
    /\ EndLoop("TypeError")
    /\ UNCHANGED <<stdout, timeout, interval, start_time, api_errors, sleeps>>
    /\ UNCHANGED dvars
    /\ UNCHANGED cvars

\* the fetch returns d and the rollout is complete: print, break
IterConverged(d) ==
    /\ pc = "fetch" /\ fetches < MaxFetches
    /\ ~GenerationRaises(d)
    /\ RolloutComplete(d)
    /\ \E t \in clock..MaxClock : clock' = t
    /\ fetches' = fetches + 1
    /\ ReadLocals(d)
    /\ stdout' = Append(stdout, MsgSuccess)
    /\ EndLoop("Converged")
    /\ UNCHANGED <<timeout, interval, start_time, api_errors, sleeps>>
    /\ UNCHANGED dvars
    /\ UNCHANGED cvars

\* the fetch returns d, the rollout is not complete and the timeout check,
\* reading the clock as t, fires: print, sys.exit(1)
IterTimedOut(d) ==
    /\ pc = "fetch" /\ fetches < MaxFetches
    /\ ~GenerationRaises(d)
    /\ ~RolloutComplete(d)
    /\ \E t \in clock..MaxClock :
        /\ TimeoutExceeded(t)
        /\ clock' = t
    /\ fetches' = fetches + 1
    /\ ReadLocals(d)
    /\ stdout' = Append(stdout, MsgTimeout)
    /\ EndLoop("TimedOut")
    /\ UNCHANGED <<timeout, interval, start_time, api_errors, sleeps>>
    /\ UNCHANGED dvars
    /\ UNCHANGED cvars

IterProgressSilent(d) ==
    /\ pc = "fetch" /\ fetches < MaxFetches
    /\ ~GenerationRaises(d)
    /\ ~RolloutComplete(d)
    /\ \E t \in clock..MaxClock :
        /\ ~TimeoutExceeded(t)
        /\ clock' = t
    /\ fetches' = fetches + 1
    /\ ReadLocals(d)
    /\ pc' = "sleep"
    /\ UNCHANGED <<stdout, exit_status, timeout, interval, start_time, outcome,
                   loop_result, api_errors, sleeps>>
    /\ UNCHANGED dvars
    /\ UNCHANGED cvars

\* the fetch returns d, the rollout is not complete and the timeout check
\* does not fire: print the progress line and go to sleep
IterProgress(d) ==
    /\ pc = "fetch" /\ fetches < MaxFetches
    /\ ~GenerationRaises(d)
    /\ ~RolloutComplete(d)
    /\ \E t \in clock..MaxClock :
        /\ ~TimeoutExceeded(t)
        /\ clock' = t
    /\ fetches' = fetches + 1
    /\ ReadLocals(d)
    /\ stdout' = Append(stdout, MsgProgress)
    /\ pc' = "sleep"
    /\ UNCHANGED <<exit_status, timeout, interval, start_time, outcome,
                   loop_result, api_errors, sleeps>>
    /\ UNCHANGED dvars
    /\ UNCHANGED cvars

\* the sleep, had the loop restarted its timer after each sleep
SleepResetsStartTime ==
    /\ pc = "sleep"
    /\ clock + interval <= MaxClock
    /\ \E t \in (clock + interval)..MaxClock : clock' = t /\ start_time' = t
    /\ sleeps' = sleeps + 1
    /\ deployment' = NoDeployment
    /\ spec_replicas' = None
    /\ updated_replicas' = None
    /\ available_replicas' = None
    /\ pc' = "fetch"
    /\ UNCHANGED <<stdout, exit_status, timeout, interval, outcome,
                   loop_result, fetches, api_errors, first_spec_replicas>>
    /\ UNCHANGED dvars
    /\ UNCHANGED cvars

\* time.sleep(interval) returns, no sooner than interval after it was
\* called. The snapshot of the iteration is superseded: the next fetch
\* rebinds deployment and the three locals before anything reads them.
Sleep ==
    /\ pc = "sleep"
    /\ clock + interval <= MaxClock
    /\ \E t \in (clock + interval)..MaxClock : clock' = t
    /\ sleeps' = sleeps + 1
    /\ deployment' = NoDeployment
    /\ spec_replicas' = None
    /\ updated_replicas' = None
    /\ available_replicas' = None
    /\ pc' = "fetch"
    /\ UNCHANGED <<stdout, exit_status, timeout, interval, start_time, outcome,
                   loop_result, fetches, api_errors, first_spec_replicas>>
    /\ UNCHANGED dvars
    /\ UNCHANGED cvars

\* the loop returned: rollout_deployment returns, main logs the completion
\* and the interpreter exits with status 0
ProcessEnds ==
    /\ pc = "returned"
    /\ pc' = "exited"
    /\ exit_status' = Some(0)
    /\ UNCHANGED <<stdout>>
    /\ UNCHANGED rvars
    /\ UNCHANGED dvars
    /\ UNCHANGED cvars

\* the iteration, had the timeout check come before the convergence check
IterationTimeoutFirst ==
    /\ pc = "fetch"
    /\ \/ \E status \in ApiStatuses : FetchFailed(status)
       \/ \E d \in Deployments : IterRaises(d)
       \/ \E d \in Deployments : IterConverged(d) /\ ~TimeoutExceeded(clock')
       \/ \E d \in Deployments :
             /\ fetches < MaxFetches
             /\ ~GenerationRaises(d)
             /\ \E t \in clock..MaxClock : TimeoutExceeded(t) /\ clock' = t
             /\ fetches' = fetches + 1
             /\ ReadLocals(d)
             /\ stdout' = Append(stdout, MsgTimeout)
             /\ EndLoop("TimedOut")
             /\ UNCHANGED <<timeout, interval, start_time, api_errors, sleeps>>
             /\ UNCHANGED dvars
             /\ UNCHANGED cvars
       \/ \E d \in Deployments : IterProgress(d)

\* one iteration of the while loop, from the fetch to the sleep or the exit
Iteration ==
    /\ pc = "fetch"
    /\ \/ \E status \in ApiStatuses : FetchFailed(status)
       \/ \E d \in Deployments : IterRaises(d)
       \/ \E d \in Deployments : IterConverged(d)
       \/ \E d \in Deployments : IterTimedOut(d)
       \/ \E d \in Deployments : IterProgress(d)

Next ==
    \/ StartMonitor
    \/ Iteration
    \/ Sleep
    \/ ProcessEnds

Spec == Init /\ [][Next]_vars

-----------------------------------------------------------------------------
(* diagnostic_deployment, from the listing of the pods on. The items of    *)
(* the listing are drawn one at a time, each when the for loop reaches it. *)

\* diagnostic_deployment has found the deployment and listed its pods
DiagInit ==
    /\ pc = "pods_listed" /\ stdout = <<>> /\ exit_status = None
    /\ n_pods \in 0..MaxPods
    /\ arg_pod \in BOOLEAN
    /\ pod = NoPod
    /\ processed = 0 /\ healthy_count = 0 /\ issues_count = 0
    /\ classified = "None" /\ reported = "None"
    /\ metrics = "unfetched" /\ pod_metrics_entry = Absent
    /\ RolloutIdle
    /\ CmdIdle

\* if not pods.items: print, return
NoPods ==
    /\ pc = "pods_listed" /\ n_pods = 0
    /\ stdout' = Append(stdout, MsgNoPods)
    /\ pc' = "returned"
    /\ UNCHANGED <<exit_status>>
    /\ UNCHANGED dvars
    /\ UNCHANGED cvars
    /\ UNCHANGED rvars

\* the metrics call and the filling of pod_metrics, healthy_count = 0,
\* issues_count = 0, the header when --pod is given
StartPass ==
    /\ pc = "pods_listed" /\ n_pods > 0
    /\ healthy_count' = 0 /\ issues_count' = 0
    /\ stdout' = IF arg_pod THEN Append(stdout, MsgPodHeader) ELSE stdout
    /\ metrics' \in MetricsResults
    /\ pc' = "for"
    /\ UNCHANGED <<exit_status, n_pods, arg_pod, pod, processed, classified,
                   reported, pod_metrics_entry>>
    /\ UNCHANGED rvars
    /\ UNCHANGED cvars

\* the loop body raises: the process dies with the exception, status 1
PodRaises(p) ==
    /\ pc = "for" /\ processed < n_pods
    /\ StateRaises(p) \/ JoinRaises(IssueReasons(p))
    /\ pod' = p
    /\ processed' = processed + 1
    /\ classified' = IF StateRaises(p) THEN "AttributeError" ELSE "TypeError"
    /\ pc' = "exited"
    /\ exit_status' = Some(1)
    /\ UNCHANGED <<stdout, n_pods, arg_pod, healthy_count, issues_count,
                   reported>>
    /\ UNCHANGED rvars
    /\ UNCHANGED cvars

\* the issue branch, had it bumped the healthy counter as well
PodIssueCountsTwice(p) ==
    /\ pc = "for" /\ processed < n_pods
    /\ ~StateRaises(p) /\ ~JoinRaises(IssueReasons(p))
    /\ HasIssue(p)
    /\ pod' = p
    /\ processed' = processed + 1
    /\ reported' = IssuesText(p)
    /\ issues_count' = issues_count + 1
    /\ healthy_count' = healthy_count + 1
    /\ classified' = "Issue"
    /\ stdout' = IF arg_pod THEN Append(stdout, MsgPodLine) ELSE stdout
    /\ pc' = "body_done"
    /\ UNCHANGED <<exit_status, n_pods, arg_pod>>
    /\ UNCHANGED rvars
    /\ UNCHANGED cvars

\* the loop body takes the issue branch for p
PodIssue(p) ==
    /\ pc = "for" /\ processed < n_pods
    /\ ~StateRaises(p) /\ ~JoinRaises(IssueReasons(p))
    /\ HasIssue(p)
    /\ pod' = p
    /\ processed' = processed + 1
    /\ reported' = IssuesText(p)
    /\ issues_count' = issues_count + 1
    /\ classified' = "Issue"
    /\ stdout' = IF arg_pod THEN Append(stdout, MsgPodLine) ELSE stdout
    /\ pc' = "body_done"
    /\ UNCHANGED <<exit_status, n_pods, arg_pod, healthy_count>>
    /\ UNCHANGED rvars
    /\ UNCHANGED cvars

\* the loop body takes the else branch for p
PodHealthy(p) ==
    /\ pc = "for" /\ processed < n_pods
    /\ ~StateRaises(p) /\ ~JoinRaises(IssueReasons(p))
    /\ ~HasIssue(p)
    /\ pod' = p
    /\ processed' = processed + 1
    /\ reported' = "None"
    /\ healthy_count' = healthy_count + 1
    /\ classified' = "Healthy"
    /\ stdout' = IF arg_pod THEN Append(stdout, MsgPodLine) ELSE stdout
    /\ pc' = "body_done"
    /\ UNCHANGED <<exit_status, n_pods, arg_pod, issues_count>>
    /\ UNCHANGED rvars
    /\ UNCHANGED cvars

\* the loop body for the next pod of the listing; diag_msg gets the pod's
\* entry of pod_metrics before the reasons are collected
PodBody ==
    /\ pc = "for"
    /\ pod_metrics_entry' \in MetricsEntries(metrics)
    /\ metrics' = metrics
    /\ \/ \E p \in Pods : PodRaises(p)
       \/ \E p \in Pods : PodIssue(p)
       \/ \E p \in Pods : PodHealthy(p)

\* the for statement takes the next item: the names of the body are rebound
\* before anything reads them
NextPod ==
    /\ pc = "body_done" /\ processed < n_pods
    /\ pod' = NoPod
    /\ classified' = "None" /\ reported' = "None"
    /\ pod_metrics_entry' = Absent
    /\ pc' = "for"
    /\ UNCHANGED <<stdout, exit_status, n_pods, arg_pod, processed,
                   healthy_count, issues_count, metrics>>
    /\ UNCHANGED rvars
    /\ UNCHANGED cvars

\* the listing is exhausted: the overall lines are printed and the function
\* returns
PassEnds ==
    /\ pc = "body_done" /\ processed = n_pods
    /\ stdout' = Append(stdout, MsgOverall)
    /\ pc' = "returned"
    /\ UNCHANGED <<exit_status>>
    /\ UNCHANGED dvars
    /\ UNCHANGED cvars
    /\ UNCHANGED rvars

DiagNext ==
    \/ NoPods
    \/ StartPass
    \/ PodBody
    \/ NextPod
    \/ PassEnds
    \/ ProcessEnds

DiagSpec == DiagInit /\ [][DiagNext]_vars

-----------------------------------------------------------------------------
(* The commands that look the deployment up: sre scale, sre info, sre      *)
(* rollout and sre logs. Each call of the API is a step. A command that    *)
(* reaches the call of monitor_rollout_status goes on as Spec describes.   *)

\* main has parsed the arguments and calls the function of the command
CmdInit ==
    /\ pc = "main" /\ stdout = <<>> /\ exit_status = None
    /\ command \in Commands
    /\ arg_logs \in (IF command = "logs" THEN {"deployment", "pod"}
                     ELSE {"None"})
    /\ arg_deployment \in (IF arg_logs = "pod" THEN {"None"}
                           ELSE DeploymentNames)
    /\ arg_namespace \in ArgNamespaces
    /\ arg_action \in (IF command = "rollout" THEN {"restart", "status"}
                       ELSE {"None"})
    /\ arg_replicas \in (IF command = "scale"
                         THEN {Some(r) : r \in 0..MaxReplicas} ELSE {None})
    /\ cluster \in Clusters
    /\ cluster0 = cluster
    /\ restarted = {}
    /\ lookup = NoLookup
    /\ patches = <<>>
    /\ monitor_call = NoCall
    /\ shown = "None"
    /\ n_log_pods = 0 /\ log_requests = <<>> /\ log_failures = {}
    /\ RolloutIdle
    /\ DiagIdle

\* print(message), sys.exit(1)
ExitWith(message) ==
    /\ stdout' = Append(stdout, message)
    /\ pc' = "exited"
    /\ exit_status' = Some(1)

\* deployment = find_deployment(apps_v1, deployment_name, ns)
Find ==
    /\ pc = "main"
    /\ command # "logs" \/ arg_logs = "deployment"
    /\ \E status \in FindStatuses :
        LET r == FindDeployment(cluster, arg_namespace, status) IN
        /\ lookup' = r
        /\ IF r.result = "exit"
           THEN ExitWith(r.message)
           ELSE /\ pc' = "found"
                /\ UNCHANGED <<stdout, exit_status>>
    /\ UNCHANGED <<cluster, restarted, patches, monitor_call, shown>>
    /\ UNCHANGED <<avars, lvars, rvars, dvars>>

\* if not deployment: print, sys.exit(1)
NotFound ==
    /\ pc = "found"
    /\ ~DeploymentFound(lookup)
    /\ ExitWith(MsgNotFound)
    /\ UNCHANGED <<cluster, restarted, lookup, patches, monitor_call, shown>>
    /\ UNCHANGED <<avars, lvars, rvars, dvars>>

\* sre scale: patch_namespaced_deployment_scale succeeds
ScalePatched ==
    /\ pc = "found" /\ command = "scale"
    /\ DeploymentFound(lookup)
    /\ PatchAccepted(cluster, lookup.namespace)
    /\ patches' = Append(patches, [op |-> "scale", name |-> arg_deployment,
                                   namespace |-> lookup.namespace,
                                   replicas |-> arg_replicas])
    /\ cluster' = [cluster EXCEPT ![lookup.namespace] = arg_replicas]
    /\ stdout' = Append(stdout, MsgScaled)
    /\ pc' = "returned"
    /\ UNCHANGED <<exit_status, restarted, lookup, monitor_call, shown>>
    /\ UNCHANGED <<avars, lvars, rvars, dvars>>

\* sre scale: patch_namespaced_deployment_scale raises ApiException
ScaleFails ==
    /\ pc = "found" /\ command = "scale"
    /\ DeploymentFound(lookup)
    /\ patches' = Append(patches, [op |-> "scale", name |-> arg_deployment,
                                   namespace |-> lookup.namespace,
                                   replicas |-> arg_replicas])
    /\ ExitWith(MsgScaleFailed)
    /\ UNCHANGED <<cluster, restarted, lookup, monitor_call, shown>>
    /\ UNCHANGED <<avars, lvars, rvars, dvars>>

\* sre info: the lines of the deployment are printed
ShowInfo ==
    /\ pc = "found" /\ command = "info"
    /\ DeploymentFound(lookup)
    /\ shown' = lookup.namespace
    /\ stdout' = Append(stdout, MsgInfo)
    /\ pc' = "returned"
    /\ UNCHANGED <<exit_status, cluster, restarted, lookup, patches,
                   monitor_call>>
    /\ UNCHANGED <<avars, lvars, rvars, dvars>>

\* sre rollout restart: patch_namespaced_deployment succeeds
RestartPatched ==
    /\ pc = "found" /\ command = "rollout" /\ arg_action = "restart"
    /\ DeploymentFound(lookup)
    /\ PatchAccepted(cluster, lookup.namespace)
    /\ patches' = Append(patches, [op |-> "restart", name |-> arg_deployment,
                                   namespace |-> lookup.namespace,
                                   replicas |-> None])
    /\ restarted' = restarted \cup {lookup.namespace}
    /\ stdout' = Append(stdout, MsgRestarted)
    /\ pc' = "patched"
    /\ UNCHANGED <<exit_status, cluster, lookup, monitor_call, shown>>
    /\ UNCHANGED <<avars, lvars, rvars, dvars>>

\* the failed restart, had the command gone on to monitor
RestartFailsAndMonitors ==
    /\ pc = "found" /\ command = "rollout" /\ arg_action = "restart"
    /\ DeploymentFound(lookup)
    /\ patches' = Append(patches, [op |-> "restart", name |-> arg_deployment,
                                   namespace |-> lookup.namespace,
                                   replicas |-> None])
    /\ stdout' = Append(stdout, MsgRestartFailed)
    /\ pc' = "patched"
    /\ UNCHANGED <<exit_status, cluster, restarted, lookup, monitor_call,
                   shown>>
    /\ UNCHANGED <<avars, lvars, rvars, dvars>>

\* sre rollout restart: patch_namespaced_deployment raises ApiException
RestartFails ==
    /\ pc = "found" /\ command = "rollout" /\ arg_action = "restart"
    /\ DeploymentFound(lookup)
    /\ patches' = Append(patches, [op |-> "restart", name |-> arg_deployment,
                                   namespace |-> lookup.namespace,
                                   replicas |-> None])
    /\ ExitWith(MsgRestartFailed)
    /\ UNCHANGED <<cluster, restarted, lookup, monitor_call, shown>>
    /\ UNCHANGED <<avars, lvars, rvars, dvars>>

\* sre rollout restart: after the patch, print and call
\* monitor_rollout_status(apps_v1, deployment_name, ns)
MonitorAfterRestart ==
    /\ pc = "patched"
    /\ stdout' = Append(stdout, MsgMonitoring)
    /\ monitor_call' = [name |-> arg_deployment,
                        namespace |-> lookup.namespace]
    /\ pc' = "monitor"
    /\ UNCHANGED <<exit_status, cluster, restarted, lookup, patches, shown>>
    /\ UNCHANGED <<avars, lvars, rvars, dvars>>

\* sre rollout status: monitor_rollout_status(apps_v1, deployment_name, ns)
RolloutStatus ==
    /\ pc = "found" /\ command = "rollout" /\ arg_action = "status"
    /\ DeploymentFound(lookup)
    /\ monitor_call' = [name |-> arg_deployment,
                        namespace |-> lookup.namespace]
    /\ pc' = "monitor"
    /\ UNCHANGED <<stdout, exit_status, cluster, restarted, lookup, patches,
                   shown>>
    /\ UNCHANGED <<avars, lvars, rvars, dvars>>

\* sre logs --deployment: the deployment has no selector, or the listing of
\* its pods raises ApiException: print, sys.exit(1)
LogsListFails ==
    /\ pc = "found" /\ command = "logs"
    /\ DeploymentFound(lookup)
    /\ \E message \in {MsgNoSelector, MsgListError} : ExitWith(message)
    /\ UNCHANGED <<cluster, restarted, lookup, patches, monitor_call, shown>>
    /\ UNCHANGED <<avars, lvars, rvars, dvars>>

\* sre logs --deployment: if not pods.items: print, return
NoLogPods ==
    /\ pc = "found" /\ command = "logs"
    /\ DeploymentFound(lookup)
    /\ stdout' = Append(stdout, MsgNoPods)
    /\ pc' = "returned"
    /\ UNCHANGED <<exit_status, cluster, restarted, lookup, patches,
                   monitor_call, shown>>
    /\ UNCHANGED <<avars, lvars, rvars, dvars>>

\* sre logs --deployment: the listing has pods, numbered in list order
LogPodsListed ==
    /\ pc = "found" /\ command = "logs"
    /\ DeploymentFound(lookup)
    /\ n_log_pods' \in 1..MaxPods
    /\ pc' = "logs_for"
    /\ UNCHANGED <<stdout, exit_status, cluster, restarted, lookup, patches,
                   monitor_call, shown, log_requests, log_failures>>
    /\ UNCHANGED <<avars, rvars, dvars>>

\* the for loop takes the next pod, or the function returns after the last
AfterLogRequest ==
    pc' = IF Len(log_requests) + 1 < n_log_pods THEN "logs_for" ELSE "returned"

\* sre logs --deployment: read_namespaced_pod_log of the next pod returns
LogFetched ==
    /\ pc = "logs_for"
    /\ log_requests' = Append(log_requests, Len(log_requests) + 1)
    /\ stdout' = Append(stdout, MsgLogs)
    /\ AfterLogRequest
    /\ UNCHANGED <<exit_status, cluster, restarted, lookup, patches,
                   monitor_call, shown, n_log_pods, log_failures>>
    /\ UNCHANGED <<avars, rvars, dvars>>

\* the failed log request, had it ended the command
LogFetchFailsAndExits ==
    /\ pc = "logs_for"
    /\ log_requests' = Append(log_requests, Len(log_requests) + 1)
    /\ log_failures' = log_failures \cup {Len(log_requests) + 1}
    /\ ExitWith(MsgLogError)
    /\ UNCHANGED <<cluster, restarted, lookup, patches, monitor_call, shown,
                   n_log_pods>>
    /\ UNCHANGED <<avars, rvars, dvars>>

\* sre logs --deployment: read_namespaced_pod_log of the next pod raises
\* ApiException: print, go on with the loop
LogFetchFails ==
    /\ pc = "logs_for"
    /\ log_requests' = Append(log_requests, Len(log_requests) + 1)
    /\ log_failures' = log_failures \cup {Len(log_requests) + 1}
    /\ stdout' = Append(stdout, MsgLogError)
    /\ AfterLogRequest
    /\ UNCHANGED <<exit_status, cluster, restarted, lookup, patches,
                   monitor_call, shown, n_log_pods>>
    /\ UNCHANGED <<avars, rvars, dvars>>

\* sre logs --pod: read_namespaced_pod_log returns; the named pod is pod 0
NamedPodLogFetched ==
    /\ pc = "main" /\ command = "logs" /\ arg_logs = "pod"
    /\ log_requests' = Append(log_requests, 0)
    /\ stdout' = Append(stdout, MsgLogs)
    /\ pc' = "returned"
    /\ UNCHANGED <<exit_status, cluster, restarted, lookup, patches,
                   monitor_call, shown, n_log_pods, log_failures>>
    /\ UNCHANGED <<avars, rvars, dvars>>

\* sre logs --pod: read_namespaced_pod_log raises ApiException: print,
\* sys.exit(1)
NamedPodLogFails ==
    /\ pc = "main" /\ command = "logs" /\ arg_logs = "pod"
    /\ log_requests' = Append(log_requests, 0)
    /\ log_failures' = log_failures \cup {0}
    /\ ExitWith(MsgLogError)
    /\ UNCHANGED <<cluster, restarted, lookup, patches, monitor_call, shown,
                   n_log_pods>>
    /\ UNCHANGED <<avars, rvars, dvars>>

CmdNext ==
    \/ Find
    \/ NotFound
    \/ ScalePatched
    \/ ScaleFails
    \/ ShowInfo
    \/ RestartPatched
    \/ RestartFails
    \/ MonitorAfterRestart
    \/ RolloutStatus
    \/ LogsListFails
    \/ NoLogPods
    \/ LogPodsListed
    \/ LogFetched
    \/ LogFetchFails
    \/ NamedPodLogFetched
    \/ NamedPodLogFails
    \/ ProcessEnds

CmdSpec == CmdInit /\ [][CmdNext]_vars

-----------------------------------------------------------------------------
(* The rollout check as the specification words it: Converged iff the      *)
(* observed generation has reached the desired one and the updated and the *)
(* available replicas both equal the desired replicas, an absent number    *)
(* counting as 0.                                                          *)

HasNullField(d) ==
    \/ d.replicas = None \/ d.updated_replicas = None
    \/ d.available_replicas = None
    \/ d.observed_generation = None \/ d.generation = None

SpecConverged(d) ==
    /\ OrZero(d.observed_generation) >= OrZero(d.generation)
    /\ OrZero(d.updated_replicas) = OrZero(d.replicas)
    /\ OrZero(d.available_replicas) = OrZero(d.replicas)

\* an iteration has fetched a snapshot and evaluated it
Evaluated == deployment.fetched

\* what the evaluation of that snapshot came to
Verdict ==
    CASE outcome = "TypeError" -> "Raised"
      [] outcome = "Converged" -> "Converged"
      [] OTHER -> "Progressing"

Progressed == Count(stdout, MsgProgress)

\* C1: every fetched snapshot is evaluated Converged if and only if the
\* observed generation is at least the desired generation and the updated
\* and the available replicas both equal the desired replicas; any other
\* snapshot is Progressing, and there is no third outcome.
C1_ConvergedIffAllThree ==
    Evaluated =>
        /\ Verdict \in {"Converged", "Progressing"}
        /\ Verdict = "Converged" <=> SpecConverged(deployment)

\* C2: a fetch that raises ApiException, at any iteration and with any
\* status, ends the loop at once with the FetchError outcome: it is the only
\* failed fetch, it is the last fetch, and nothing is printed after its error
\* line: every earlier iteration printed one progress line and slept once,
\* so a failure of the first fetch leaves no progress line and no sleep.
C2_FetchErrorEndsLoop ==
    api_errors > 0 =>
        /\ api_errors = 1
        /\ outcome = "FetchError"
        /\ pc = "exited"
        /\ exit_status = Some(1)
        /\ Last(stdout) = MsgFetchError
        /\ Len(stdout) = fetches
        /\ Progressed = fetches - 1
        /\ sleeps = fetches - 1

C2_Witness ==
    /\ outcome = "FetchError" /\ pc = "exited"
    /\ fetches = 2 /\ sleeps = 1 /\ Progressed = 1

\* C3: a loop that ends Converged at its (k+1)-th fetch has printed exactly
\* k progress lines and slept exactly k times before the success line, and
\* a snapshot the check can compare that satisfies the rollout condition
\* always ends the loop at that fetch.
C3_ConvergedAfterKProgress ==
    /\ outcome = "Converged" =>
          /\ Progressed = fetches - 1
          /\ sleeps = fetches - 1
          /\ Len(stdout) = fetches
          /\ Last(stdout) = MsgSuccess
          /\ Count(stdout, MsgSuccess) = 1
    /\ (Evaluated /\ ~GenerationRaises(deployment) /\ SpecConverged(deployment))
          => outcome = "Converged"

C3_Witness ==
    /\ outcome = "Converged"
    /\ fetches = 3 /\ sleeps = 2 /\ Progressed = 2
    /\ stdout = <<MsgProgress, MsgProgress, MsgSuccess>>

\* the first iteration found the rollout incomplete, with timeout = 0
FirstCheckAtZeroTimeout ==
    /\ timeout = 0 /\ fetches = 1 /\ Evaluated /\ Verdict = "Progressing"

\* C4 as first stated: with timeout = 0 and a snapshot that has not
\* converged the loop ends TimedOut at the first timeout check, after one
\* fetch, with no progress line and no sleep, whatever the clock reads.
C4_TimedOutAtFirstCheck ==
    FirstCheckAtZeroTimeout =>
        /\ outcome = "TimedOut"
        /\ Progressed = 0 /\ sleeps = 0

\* C4 amended: with timeout = 0 and a snapshot that has not converged the
\* loop ends TimedOut at the first timeout check, after one fetch, with no
\* progress line and no sleep, when the clock read by that check is later
\* than start_time; when it still reads start_time the check does not fire
\* and the loop prints a progress line and goes to sleep.
C4_TimedOutWhenClockAdvanced ==
    FirstCheckAtZeroTimeout =>
        IF clock > start_time
        THEN /\ outcome = "TimedOut" /\ pc = "exited"
             /\ Progressed = 0 /\ sleeps = 0
        ELSE /\ outcome = "Polling" /\ pc = "sleep"
             /\ Progressed = 1 /\ sleeps = 0

C4_Witness ==
    /\ FirstCheckAtZeroTimeout /\ clock > start_time
    /\ outcome = "TimedOut" /\ stdout = <<MsgTimeout>>

\* C5: a run of the loop that has ended, ended in one of Converged,
\* TimedOut and FetchError, whatever the fetches returned.
C5_EndsInOneOfThree ==
    pc \in {"returned", "exited"} =>
        outcome \in {"Converged", "TimedOut", "FetchError"}

\* C6: a snapshot with an absent number is evaluated as the same snapshot
\* with 0 in its place: Converged or Progressing, never an error.
C6_NullFieldsAsZero ==
    (Evaluated /\ HasNullField(deployment)) =>
        Verdict = IF SpecConverged(deployment) THEN "Converged"
                  ELSE "Progressing"

\* C7 as first stated: the desired replica count an iteration compares
\* against is the one the first iteration read.
C7_DesiredReadOnce ==
    spec_replicas # None => spec_replicas = first_spec_replicas

\* C7 amended: every iteration reads the desired replica count anew from
\* the snapshot it fetched and compares the updated and the available
\* replicas of that snapshot against it, so a change of spec.replicas
\* between two polls is followed.
C7_DesiredReadEachIteration ==
    Evaluated =>
        /\ spec_replicas = Some(OrZero(deployment.replicas))
        /\ outcome = "Converged" =>
              /\ updated_replicas = spec_replicas
              /\ available_replicas = spec_replicas
              /\ OrZero(deployment.updated_replicas) = OrZero(deployment.replicas)
              /\ OrZero(deployment.available_replicas) = OrZero(deployment.replicas)

C7_Witness ==
    /\ outcome = "Converged" /\ fetches >= 2
    /\ spec_replicas # first_spec_replicas
    /\ spec_replicas = Some(OrZero(deployment.replicas))

\* C8 as first stated: the result the loop hands its caller on FetchError
\* differs from the one it hands it on TimedOut.
C8_ResultTellsErrorFromTimeout ==
    outcome \in {"FetchError", "TimedOut"} =>
        \A o \in {"FetchError", "TimedOut"} \ {outcome} :
            loop_result # LoopResult(o)

\* C8 amended: FetchError and TimedOut are both terminal, and both end the
\* process inside the loop with exit status 1, so the caller gets the same
\* SystemExit(1) and never regains control; the two differ only in the
\* last line printed.
C8_SameExitDistinctMessage ==
    outcome \in {"FetchError", "TimedOut"} =>
        /\ pc = "exited"
        /\ loop_result = "SystemExit(1)"
        /\ exit_status = Some(1)
        /\ Last(stdout) = IF outcome = "FetchError" THEN MsgFetchError
                          ELSE MsgTimeout
        /\ MsgFetchError # MsgTimeout

C8_Witness ==
    /\ outcome = "TimedOut" /\ loop_result = "SystemExit(1)"
    /\ exit_status = Some(1) /\ Last(stdout) = MsgTimeout

\* C17: the convergence check comes before the timeout check: a snapshot
\* that satisfies the rollout condition ends the loop Converged, with the
\* success line and no error exit, even when the time elapsed since
\* start_time already exceeds the timeout, and the loop ends TimedOut only
\* on a snapshot that was evaluated Progressing.
C17_ConvergenceBeforeTimeout ==
    (Evaluated /\ ~GenerationRaises(deployment)) =>
        /\ (SpecConverged(deployment) /\ clock - start_time > timeout) =>
              /\ outcome = "Converged"
              /\ Last(stdout) = MsgSuccess
              /\ exit_status # Some(1)
        /\ outcome = "TimedOut" =>
              /\ ~SpecConverged(deployment)
              /\ Verdict = "Progressing"
              /\ clock - start_time > timeout

C17_Witness ==
    /\ outcome = "Converged" /\ clock - start_time > timeout
    /\ fetches = 2 /\ sleeps = 1

\* C18: start_time is recorded once, before the first fetch, and never
\* changes afterwards; an iteration that ends with the elapsed time above
\* the timeout prints no progress line and starts no sleep; and once the
\* elapsed time is above the timeout when a fetch is due, that fetch is the
\* last one: the loop terminates in that iteration.
C18_SingleStartTime ==
    [][/\ pc = "monitor" => (fetches = 0 /\ fetches' = 0)
       /\ pc # "monitor" => start_time' = start_time
       /\ (pc = "fetch" /\ clock' - start_time > timeout) =>
             /\ pc' # "sleep"
             /\ sleeps' = sleeps
             /\ Count(stdout', MsgProgress) = Count(stdout, MsgProgress)
       /\ (pc = "fetch" /\ clock - start_time > timeout) =>
             /\ pc' \in {"returned", "exited"}
             /\ fetches' = fetches + 1]_vars

C18_Witness ==
    /\ outcome = "TimedOut" /\ pc = "exited"
    /\ fetches = 2 /\ sleeps = 1 /\ Progressed = 1
    /\ timeout = MaxTimeout /\ start_time = MaxStartTime

-----------------------------------------------------------------------------
(* The pod rule as the specification words it.                             *)

\* the container is waiting or terminated, so it contributes a reason
Contributes(c) ==
    ~c.state.is_none /\ (c.state.waiting # Absent \/ c.state.terminated # Absent)

ReasonOf(c) ==
    IF c.state.waiting # Absent THEN c.state.waiting ELSE c.state.terminated

\* the reasons of the contributing containers, in container order
ContainerIssues(p) ==
    LET cs == p.container_statuses
        idx == SelectSeq([i \in 1..Len(cs) |-> i], LAMBDA i : Contributes(cs[i]))
    IN  [k \in 1..Len(idx) |-> ReasonOf(cs[idx[k]])]

RECURSIVE CommaList(_)
CommaList(r) ==
    IF Len(r) = 1 THEN r[1] ELSE r[1] \o ", " \o CommaList(Tail(r))

\* the loop body has classified the pod it holds
Classified == classified \in {"Healthy", "Issue"}

\* C9: a pod the pass has classified is counted Healthy if and only if its
\* phase is "Running", it has at least one container status, every
\* container reports ready and no container is waiting or terminated; a pod
\* whose container-status list is empty or absent is never Healthy.
C9_HealthyIff ==
    Classified =>
        /\ classified = "Healthy" <=>
              /\ pod.phase = "Running"
              /\ pod.has_statuses /\ Len(pod.container_statuses) > 0
              /\ \A i \in 1..Len(pod.container_statuses) :
                    /\ pod.container_statuses[i].ready
                    /\ ~Contributes(pod.container_statuses[i])
        /\ (~pod.has_statuses \/ pod.container_statuses = <<>>)
              => classified = "Issue"
        /\ classified = "Healthy" => healthy_count > 0 /\ reported = "None"
        /\ classified = "Issue" => issues_count > 0

C9_Witness ==
    /\ classified = "Healthy" /\ Len(pod.container_statuses) = 2
    /\ healthy_count = 2 /\ processed = 2

\* C10: for a pod classified Issue the reported reasons are the waiting or
\* terminated reasons of its containers, in container order, whenever there
\* is one, whatever the phase and the readiness, and the single fallback
\* "Pod not running/ready" only when no container contributes a reason.
C10_ReportedReasons ==
    classified = "Issue" =>
        IF ContainerIssues(pod) # <<>>
        THEN reported = CommaList(ContainerIssues(pod))
        ELSE /\ reported = "Pod not running/ready"
             /\ pod.phase # "Running" \/ ~Ready(pod)

C10_Witness ==
    /\ classified = "Issue" /\ pod.phase = "Running"
    /\ \A i \in 1..Len(pod.container_statuses) : pod.container_statuses[i].ready
    /\ reported = "CrashLoopBackOff, Error"

\* the body of the for loop raised for the pod it had taken
BodyRaised == classified \in {"AttributeError", "TypeError"}

\* pods whose loop body ran to its end
BodiesCompleted == IF BodyRaised THEN processed - 1 ELSE processed

\* C11: at every point of the pass the healthy count plus the issue count
\* equals the number of pods the loop has processed so far, every pod adds
\* one to exactly one of the two counters, and a pass that reaches its end
\* has counted all N pods of the listing.
C11_CountsPartitionPods ==
    /\ healthy_count + issues_count = BodiesCompleted
    /\ processed <= n_pods
    /\ (pc = "body_done" /\ classified = "Healthy") => healthy_count >= 1
    /\ (pc = "body_done" /\ classified = "Issue") => issues_count >= 1
    /\ (pc = "returned" /\ n_pods > 0) =>
           healthy_count + issues_count = n_pods

C11_Witness ==
    /\ pc = "returned" /\ n_pods = MaxPods
    /\ healthy_count >= 1 /\ issues_count >= 1

\* C13: every pod status the loop takes, malformed ones included, is
\* classified Healthy or Issue and never makes the diagnostics fail; a pod
\* with a missing field is an Issue (original statement).
C13_NoErrorPath ==
    pod.listed =>
        /\ Classified
        /\ exit_status # Some(1)
        /\ (\/ pod.phase = "None"
            \/ ~pod.has_statuses
            \/ \E i \in 1..Len(pod.container_statuses) :
                   \/ pod.container_statuses[i].state.is_none
                   \/ pod.container_statuses[i].state.waiting = "None"
                   \/ pod.container_statuses[i].state.terminated = "None")
           => classified = "Issue"

\* the verdict of a pod from its status alone
StatusVerdict(p) ==
    IF /\ p.phase = "Running"
       /\ p.has_statuses /\ Len(p.container_statuses) > 0
       /\ \A i \in 1..Len(p.container_statuses) :
             p.container_statuses[i].ready /\ ~Contributes(p.container_statuses[i])
    THEN "Healthy" ELSE "Issue"

\* the reasons of a pod from its status alone
StatusReasons(p) ==
    IF StatusVerdict(p) = "Healthy" THEN "None"
    ELSE IF ContainerIssues(p) # <<>> THEN CommaList(ContainerIssues(p))
    ELSE "Pod not running/ready"

\* C12: metrics never influence the classification: whenever the loop body
\* completes for a pod, the verdict, the reported reasons and the change of
\* the two totals are those given by the pod's status alone, whether the
\* metrics call failed with an API error, returned no items, returned items
\* without an entry for the pod or returned items with one.
C12_MetricsDoNotInfluence ==
    [][(pc = "for" /\ pc' = "body_done") =>
          /\ metrics' \in MetricsResults
          /\ pod_metrics_entry' \in MetricsEntries(metrics')
          /\ classified' = StatusVerdict(pod')
          /\ reported' = StatusReasons(pod')
          /\ healthy_count' =
                healthy_count + (IF StatusVerdict(pod') = "Healthy" THEN 1 ELSE 0)
          /\ issues_count' =
                issues_count + (IF StatusVerdict(pod') = "Issue" THEN 1 ELSE 0)]_vars

C12_Witness ==
    /\ pc = "returned" /\ metrics = "ApiException"
    /\ healthy_count = 1 /\ issues_count = 1

-----------------------------------------------------------------------------
(* The commands as the specification words them.                           *)

\* the namespaces that hold a deployment of the requested name at the start
Matching == {n \in Namespaces : cluster0[n] # None}

\* a namespace was given with the command
NamespaceGiven == arg_namespace \in Namespaces

\* monitor_rollout_status has been called
Monitoring == monitor_call # NoCall

\* the restart patch the command is to send
RestartPatch ==
    [op |-> "restart", name |-> arg_deployment,
     namespace |-> lookup.namespace, replicas |-> None]

\* C14: sre rollout restart calls the monitor only after its one restart
\* patch has succeeded, and both the patch and the monitor are for the
\* requested name in the namespace of the deployment that was found; when
\* the patch fails the monitor is never called and the command ends with
\* status 1; sre rollout status sends no patch at all.
C14_PatchThenMonitor ==
    command = "rollout" =>
        /\ Monitoring =>
              /\ lookup.result = "found"
              /\ cluster0[lookup.namespace] # None
              /\ monitor_call = [name |-> arg_deployment,
                                 namespace |-> lookup.namespace]
              /\ arg_action = "restart" =>
                    /\ patches = <<RestartPatch>>
                    /\ lookup.namespace \in restarted
                    /\ Last(stdout) = MsgMonitoring
        /\ (patches # <<>> /\ restarted = {}) =>
              /\ ~Monitoring
              /\ pc = "exited" /\ exit_status = Some(1)
              /\ Last(stdout) = MsgRestartFailed
        /\ arg_action = "status" => (patches = <<>> /\ restarted = {})
        /\ cluster = cluster0

C14_Witness ==
    /\ command = "rollout" /\ arg_action = "restart"
    /\ arg_namespace = "None"
    /\ pc = "monitor" /\ monitor_call = [name |-> "web", namespace |-> "prod"]
    /\ restarted = {"prod"}

\* C15: sre info without a namespace, when several namespaces hold a
\* deployment of the requested name and the API serves the search, shows
\* the first deployment of the listing and ends with status 0 (original
\* statement).
C15_FirstMatchShown ==
    (/\ command = "info" /\ ~Truthy(arg_namespace)
     /\ Cardinality(Matching) > 1
     /\ pc = "exited" /\ Last(stdout) # MsgSearchError) =>
        /\ shown = Items(cluster0)[1]
        /\ exit_status = Some(0)

\* C16: sre scale sends at most one patch, and only for a deployment it
\* resolved: the patch names the requested deployment and the requested
\* replicas; with a namespace given it is for that namespace, without one
\* it is for the only namespace that holds a deployment of that name. After
\* a successful scale that deployment's desired replicas are the requested
\* value and no other deployment has changed; otherwise nothing changed.
C16_ScalesTheResolvedDeployment ==
    command = "scale" =>
        /\ Len(patches) <= 1
        /\ patches # <<>> =>
              /\ patches[1].op = "scale"
              /\ patches[1].name = arg_deployment
              /\ patches[1].replicas = arg_replicas
              /\ patches[1].namespace \in Matching
              /\ NamespaceGiven => patches[1].namespace = arg_namespace
              /\ ~NamespaceGiven => Matching = {patches[1].namespace}
        /\ IF pc = "returned" \/ exit_status = Some(0)
           THEN /\ patches # <<>>
                /\ cluster[patches[1].namespace] = arg_replicas
                /\ \A n \in Namespaces \ {patches[1].namespace} :
                      cluster[n] = cluster0[n]
           ELSE cluster = cluster0
        /\ restarted = {}

C16_Witness ==
    /\ command = "scale" /\ arg_namespace = "None"
    /\ exit_status = Some(0)
    /\ Matching = {"prod"}
    /\ cluster0["prod"] = Some(0) /\ cluster["prod"] = Some(MaxReplicas)

\* the lookup cannot resolve the deployment: it is served and finds none, or
\* several without a namespace to choose by, or it fails with an API error
Unresolved ==
    /\ lookup.result # "pending"
    /\ \/ NamespaceGiven /\ arg_namespace \notin Matching
       \/ ~NamespaceGiven /\ Cardinality(Matching) # 1
       \/ lookup.message \in {MsgRetrieveError, MsgSearchError}

\* C19: in sre scale and sre rollout, a lookup that does not resolve the
\* deployment (not found, API error, or several matches without a
\* namespace) ends the command with status 1 and no patch is sent: the
\* cluster is as it was and the monitor is not called.
C19_NoWriteUnlessResolved ==
    (command \in {"scale", "rollout"} /\ Unresolved) =>
        /\ lookup.result \in {"none", "exit"}
        /\ patches = <<>>
        /\ cluster = cluster0 /\ restarted = {}
        /\ ~Monitoring
        /\ pc \in {"found", "exited"}
        /\ pc = "exited" => exit_status = Some(1)

C19_Witness ==
    /\ command = "rollout" /\ arg_action = "restart"
    /\ Cardinality(Matching) = 2
    /\ lookup.message = MsgMultiple
    /\ pc = "exited" /\ exit_status = Some(1)

\* C20: sre logs for a deployment requests the log of every listed pod
\* exactly once, in list order, whichever of the requests fail, and a
\* failed request never ends the command in error; sre logs for a named
\* pod ends with status 1 when its one request fails.
C20_LogFailureContinues ==
    command = "logs" =>
        IF arg_logs = "deployment"
        THEN /\ Len(log_requests) <= n_log_pods
             /\ \A i \in 1..Len(log_requests) : log_requests[i] = i
             /\ log_failures \subseteq 1..Len(log_requests)
             /\ log_requests # <<>> =>
                   /\ exit_status # Some(1)
                   /\ pc \in {"returned", "exited"} =>
                         Len(log_requests) = n_log_pods
        ELSE /\ Len(log_requests) <= 1
             /\ log_failures # {} =>
                   (pc = "exited" /\ exit_status = Some(1))
             /\ (log_requests # <<>> /\ log_failures = {}) =>
                   exit_status # Some(1)

C20_Witness ==
    /\ command = "logs" /\ arg_logs = "deployment"
    /\ n_log_pods = MaxPods /\ log_failures = {1}
    /\ Len(log_requests) = MaxPods /\ exit_status = Some(0)

\* sre logs for a named pod whose request failed
C20_NamedPodWitness ==
    /\ command = "logs" /\ arg_logs = "pod"
    /\ log_failures = {0} /\ exit_status = Some(1)

====
